---- MODULE Spec2Model ----
(***************************************************************************)
(* Gesture-driven starfield: the Starfield highlight state, the            *)
(* GestureController (event emitter, frame loop, smoother) and the driver  *)
(* of main.js (camera state, selection and the highlight-clear timer).     *)
(*                                                                         *)
(* Numbers of the program are JavaScript doubles.  They are modelled in    *)
(* fixed point: a quantity q is the integer q * unit, products are         *)
(* rounded to the nearest unit.                                            *)
(***************************************************************************)
EXTENDS Integers, Sequences, FiniteSets, TLC

VARIABLES
    starfield,   \* Starfield: highlighted, and per object scale / material / marker
    userData,    \* per object: baseEmissive, baseEmissiveIntensity, baseScale
    lastCall,    \* observer: the latest Starfield call and the highlight before it
    listeners,   \* GestureController.listeners: Map event -> Set of handlers
    regOrder,    \* observer: per event, the registered handlers in on() call order
    lastEmit,    \* observer: the latest _emit: event, handlers at its start, invoked
    worldInput,  \* the 21 world landmarks handed to the analysis functions
    analysis,    \* their result: fingerStates, gesture, openness (or NoAnalysis)
    scaling,     \* a scale factor and the finger states of the landmarks scaled by it
    controller,  \* GestureController: running, ready, model, lastVideoTime,
                 \*   prevHandPosition, smoothed
    video,       \* videoElement: currentTime, sized (videoWidth and videoHeight set)
    rafQueue,    \* requestAnimationFrame callbacks not yet run, oldest first
    emitted,     \* observer: the _emit calls of the latest step, in order
    lastStep,    \* observer: what the latest step of the controller did
    detections,  \* observer: detector calls so far and the last two results
    history,     \* observer: what initialize() last threw, the detector calls
                 \*   since stop(), the timestamp of the latest detector call,
                 \*   whether start() took effect since, the raw values of the
                 \*   hand it found
    app,         \* main.js: cameraState, activeSelection, clearHighlightTimer,
                 \*   and the two status texts
    timers,      \* the browser's timer table: pending timeouts, next id, history
    pointing,    \* observer: consecutive empty raycasts on a selection, time since
    cameraLog,   \* observer: update events and render ticks so far, the latest
                 \*   of them, cameraState before it, the openness of the latest
                 \*   update event
    zoomMap,     \* an openness and the radius mapOpennessToRadius returns for it
    selectionLog \* observer: the time since the hand went missing on a selection;
                 \*   the object selected at the latest empty raycast, the time
                 \*   since, and what happened to the highlight since; the delay
                 \*   last armed by each kind of update event

vars == <<starfield, userData, lastCall, listeners, regOrder, lastEmit, worldInput, analysis,
          scaling,
          controller, video, rafQueue, emitted, lastStep, detections, history,
          app, timers, pointing, cameraLog, zoomMap, selectionLog>>

starfieldVars == <<starfield, userData, lastCall>>
emitterVars == <<listeners, regOrder, lastEmit>>
classifyVars == <<worldInput, analysis, scaling>>
gestureVars == <<controller, video, rafQueue, emitted, lastStep, detections, history>>
driverVars == <<app, timers, pointing, cameraLog, zoomMap, selectionLog>>

Null == "null"

-----------------------------------------------------------------------------
(* Fixed point helpers *)

\* a value that may be null: <<>> is null, <<v>> is v
None == <<>>
Some(v) == <<v>>

Abs(n) == IF n < 0 THEN -n ELSE n

\* Math.min and Math.max
Min(a, b) == IF a < b THEN a ELSE b
Max(a, b) == IF a > b THEN a ELSE b

\* n / d rounded to the nearest integer (ties away from zero), d > 0
RoundDiv(n, d) == IF n >= 0 THEN (2 * n + d) \div (2 * d)
                            ELSE -((2 * (-n) + d) \div (2 * d))

-----------------------------------------------------------------------------
(* Starfield (src/src/starfield.js 40-223) *)

\* pickableObjects: stars first, then planets
Stars   == {"star1", "star2"}
Planets == {"planet1"}
pickableObjects == Stars \cup Planets

\* scale and emissive intensity are in hundredths; ScaleUnit is the default
\* mesh scale 1.0 that userData.baseScale saves
ScaleUnit == 100
\* highlight() may be stacked on one object at most MaxStack times in a run
MaxStack == 3

\* colours are 0xRRGGBB numbers; the constructor draws them at random
StarColours   == {11197951, 10083839, 12316159}
PlanetColours == {3355494, 4475170}

starEmissiveIntensity   == 105
planetEmissiveIntensity == 80
highlightEmissiveIntensity == 160
highlightEmissive == 15791871
highlightScaleNum == 13
highlightScaleDen == 10

\* _buildStars / _buildPlanets: the base visual state saved in userData
BaseUserData(colour) ==
    [o \in pickableObjects |->
        [type |-> IF o \in Stars THEN "star" ELSE "planet",
         baseEmissive |-> colour[o],
         baseEmissiveIntensity |->
             IF o \in Stars THEN starEmissiveIntensity ELSE planetEmissiveIntensity,
         baseScale |-> ScaleUnit]]

\* the Starfield right after its constructor
NewStarfield(ud) ==
    [highlighted |-> Null,
     scale |-> [o \in pickableObjects |-> ud[o].baseScale],
     emissive |-> [o \in pickableObjects |-> ud[o].baseEmissive],
     emissiveIntensity |-> [o \in pickableObjects |-> ud[o].baseEmissiveIntensity],
     isHighlighted |-> {}]

ColourChoices ==
    {c \in [pickableObjects -> StarColours \cup PlanetColours] :
        \A o \in pickableObjects :
            c[o] \in (IF o \in Stars THEN StarColours ELSE PlanetColours)}

\* (mutation) a clearHighlight that leaves the enlarged scale
clearHighlightKeepScale(sf, ud) ==
    IF sf.highlighted = Null THEN sf
    ELSE LET h == sf.highlighted IN
         [sf EXCEPT !.emissive[h] = ud[h].baseEmissive,
                    !.emissiveIntensity[h] = ud[h].baseEmissiveIntensity,
                    !.isHighlighted = @ \ {h},
                    !.highlighted = Null]

\* Starfield.clearHighlight()
clearHighlight(sf, ud) ==
    IF sf.highlighted = Null THEN sf
    ELSE LET h == sf.highlighted IN
         [sf EXCEPT !.emissive[h] = ud[h].baseEmissive,
                    !.emissiveIntensity[h] = ud[h].baseEmissiveIntensity,
                    !.scale[h] = ud[h].baseScale,
                    !.isHighlighted = @ \ {h},
                    !.highlighted = Null]

\* a highlight() that forgets to clear the previous object
highlightNoClear(sf, ud, object) ==
    IF object = Null THEN clearHighlight(sf, ud)
    ELSE [sf EXCEPT !.emissiveIntensity[object] = highlightEmissiveIntensity,
                    !.emissive[object] = highlightEmissive,
                    !.scale[object] = (@ * highlightScaleNum) \div highlightScaleDen,
                    !.isHighlighted = @ \cup {object},
                    !.highlighted = object]

\* Starfield.highlight(object)
highlight(sf, ud, object) ==
    IF object = Null THEN clearHighlight(sf, ud)
    ELSE LET s1 == IF sf.highlighted # Null /\ sf.highlighted # object
                   THEN clearHighlight(sf, ud) ELSE sf
         IN [s1 EXCEPT !.emissiveIntensity[object] = highlightEmissiveIntensity,
                       !.emissive[object] = highlightEmissive,
                       !.scale[object] = (@ * highlightScaleNum) \div highlightScaleDen,
                       !.isHighlighted = @ \cup {object},
                       !.highlighted = object]

NoCall == [op |-> "none", object |-> Null, before |-> [highlighted |-> Null]]

RECURSIVE ScaleAfter(_, _)
ScaleAfter(base, k) ==
    IF k = 0 THEN base
    ELSE (ScaleAfter(base, k - 1) * highlightScaleNum) \div highlightScaleDen

-----------------------------------------------------------------------------
(* Landmark geometry and gesture classification (src/src/starfield.js 253-322) *)

\* World landmarks are in metres in the program; here in tenths of a
\* millimetre (1 m = 10000), so a dot product is in 10^-8 m^2 and the bend
\* threshold -0.015 m^2 is -1500000.
fingerBendThreshold == -1500000

FINGER_TIPS == <<4, 8, 12, 16, 20>>
FINGER_PIPS == <<3, 6, 10, 14, 18>>
FINGER_MCP  == <<2, 5, 9, 13, 17>>

RECURSIVE SqrtSearch(_, _, _)
\* the largest r in lo..hi with r * r <= n
SqrtSearch(n, lo, hi) ==
    IF lo >= hi THEN lo
    ELSE LET mid == (lo + hi + 1) \div 2 IN
         IF mid * mid <= n THEN SqrtSearch(n, mid, hi) ELSE SqrtSearch(n, lo, mid - 1)

\* Math.sqrt, rounded to the nearest unit
Sqrt(n) ==
    LET r == SqrtSearch(n, 0, 46340) IN IF n - r * r > r THEN r + 1 ELSE r

distance3(a, b) ==
    LET dx == a.x - b.x
        dy == a.y - b.y
        dz == a.z - b.z
    IN Sqrt(dx * dx + dy * dy + dz * dz)

dot3(a, b) == a.x * b.x + a.y * b.y + a.z * b.z

subtract3(a, b) == [x |-> a.x - b.x, y |-> a.y - b.y, z |-> a.z - b.z]

\* computeFingerStates(worldLandmarks): thumb, index, middle, ring, pinky
computeFingerStates(worldLandmarks) ==
    [i \in 1..5 |->
        LET tip == worldLandmarks[FINGER_TIPS[i]]
            pip == worldLandmarks[FINGER_PIPS[i]]
            mcp == worldLandmarks[FINGER_MCP[i]]
            v1 == subtract3(tip, pip)
            v2 == subtract3(mcp, pip)
        IN dot3(v1, v2) < fingerBendThreshold]

\* computeOpenness(worldLandmarks)
computeOpenness(worldLandmarks) ==
    LET wrist == worldLandmarks[0]
        tipIndices == <<8, 12, 16, 20>>
        sum == distance3(wrist, worldLandmarks[tipIndices[1]])
             + distance3(wrist, worldLandmarks[tipIndices[2]])
             + distance3(wrist, worldLandmarks[tipIndices[3]])
             + distance3(wrist, worldLandmarks[tipIndices[4]])
    IN RoundDiv(sum, Len(tipIndices))

\* a classifier whose "point" test forgets the thumb
determineGestureNoThumb(fingerStates) ==
    LET extendedCount == Cardinality({i \in 1..5 : fingerStates[i]}) IN
    IF extendedCount >= 4 THEN "open"
    ELSE IF extendedCount = 0 THEN "fist"
    ELSE IF fingerStates[2] /\ ~fingerStates[3] /\ ~fingerStates[4] /\ ~fingerStates[5]
         THEN "point"
    ELSE "neutral"

\* determineGesture(fingerStates); fingerStates[1] is the thumb (index 0 in JS)
determineGesture(fingerStates) ==
    LET extendedCount == Cardinality({i \in 1..5 : fingerStates[i]}) IN
    IF extendedCount >= 4 THEN "open"
    ELSE IF extendedCount = 0 THEN "fist"
    ELSE IF fingerStates[2] /\ ~fingerStates[1] /\ ~fingerStates[3]
            /\ ~fingerStates[4] /\ ~fingerStates[5]
         THEN "point"
    ELSE "neutral"

(* Detector output.  A hand is built finger by finger: the knuckle (MCP) of
   finger i sits at x = FingerX[i], the second joint (PIP) a bone length
   above it, and the tip where the pose puts it. *)
Poses == {"straight", "short", "curled"}
BoneLength(pose) == IF pose = "short" THEN 1200 ELSE 1250
FingerX == <<-600, -300, 0, 300, 600>>

Point3(x, y, z) == [x |-> x, y |-> y, z |-> z]

\* finger f (1..5) of landmark index k, or 0 for the wrist and the thumb base
FingerOf(k) == IF k = 0 THEN 0 ELSE ((k - 1) \div 4) + 1

WorldLandmarks(pose) ==
    [k \in 0..20 |->
        IF k = 0 THEN Point3(0, 1000, 0)
        ELSE LET f == FingerOf(k)
                 b == BoneLength(pose[f])
                 mcp == Point3(FingerX[f], 100, 0)
                 pip == Point3(FingerX[f], 100 + b, 0)
                 tip == IF pose[f] = "curled" THEN Point3(FingerX[f], 400, 300)
                        ELSE Point3(FingerX[f], 100 + 2 * b, 0)
             IN IF k = FINGER_TIPS[f] THEN tip
                ELSE IF k = FINGER_PIPS[f] THEN pip
                ELSE IF k = FINGER_MCP[f] THEN mcp
                ELSE IF k < FINGER_MCP[f] THEN Point3(FingerX[f], 0, 0)
                ELSE Point3(FingerX[f], 100 + b + b \div 2, 0)]

AllPoses == [1..5 -> Poses]

NoAnalysis == [done |-> FALSE]

\* the classification half of _analyzeLandmarks (lines 486-488)
Analyze(worldLandmarks) ==
    LET fingerStates == computeFingerStates(worldLandmarks) IN
    [done |-> TRUE,
     fingerStates |-> fingerStates,
     gesture |-> determineGesture(fingerStates),
     openness |-> computeOpenness(worldLandmarks)]

\* no scaled copy of the landmarks has been classified
NoScaling == [factor |-> <<1, 1>>, fingerStates |-> None]

InitClassifyIdle ==
    /\ worldInput = WorldLandmarks([f \in 1..5 |-> "curled"])
    /\ analysis = NoAnalysis
    /\ scaling = NoScaling

-----------------------------------------------------------------------------
(* GestureController event emitter (src/src/starfield.js 389-406) *)

\* the event names callers subscribe to; two of the three ("status" is used
\* like "error") keep the handler tables small
Events == {"error", "update"}

\* handler functions a caller may register: two that only observe, and one
\* that unregisters itself from the event it is invoked for (a one-shot)
PlainHandlers == {"hA", "hB"}
OnceHandlers  == {"once"}
Handlers == PlainHandlers \cup OnceHandlers

\* A JavaScript Set is an insertion-ordered list of entries; delete() during
\* an iteration leaves an empty slot, which the iteration skips.
Empty == "empty"

Range(s) == {s[i] : i \in 1..Len(s)}

SetAddFront(s, h) == IF h \in Range(s) THEN s ELSE <<h>> \o s

\* Set.prototype.add
SetAdd(s, h) == IF h \in Range(s) THEN s ELSE Append(s, h)

\* an array splice in place of the Set's delete: later entries shift down
SetDeleteSplice(s, h) == SelectSeq(s, LAMBDA x : x # h)

\* Set.prototype.delete
SetDelete(s, h) == [i \in 1..Len(s) |-> IF s[i] = h THEN Empty ELSE s[i]]

\* the entries of a Set once no iteration is in progress
Compact(s) == SelectSeq(s, LAMBDA x : x # Empty)

CompactAll(ls) == [e \in DOMAIN ls |-> Compact(ls[e])]

\* on(event, handler)
on(ls, event, handler) ==
    LET withKey == IF event \in DOMAIN ls THEN ls
                   ELSE [e \in DOMAIN ls \cup {event} |->
                            IF e \in DOMAIN ls THEN ls[e] ELSE <<>>]
    IN [withKey EXCEPT ![event] = SetAdd(@, handler)]

\* off(event, handler)
off(ls, event, handler) ==
    IF event \in DOMAIN ls THEN [ls EXCEPT ![event] = SetDelete(@, handler)]
    ELSE ls

\* the body of a registered handler, as far as it touches the controller
RunHandler(ls, event, handler) ==
    IF handler \in OnceHandlers THEN off(ls, event, handler) ELSE ls

\* Set.prototype.forEach over listeners.get(event), from entry i on
RECURSIVE forEach(_, _, _, _)
forEach(ls, event, i, log) ==
    IF i > Len(ls[event]) THEN [listeners |-> ls, invoked |-> log]
    ELSE LET h == ls[event][i] IN
         IF h = Empty THEN forEach(ls, event, i + 1, log)
         ELSE forEach(RunHandler(ls, event, h), event, i + 1, Append(log, h))

\* _emit(event, payload): the listeners afterwards and the handlers invoked
emit(ls, event) ==
    IF event \notin DOMAIN ls THEN [listeners |-> ls, invoked |-> <<>>]
    ELSE forEach(ls, event, 1, <<>>)

Registered(ls, event) == IF event \in DOMAIN ls THEN ls[event] ELSE <<>>

NoEmit == [event |-> Null, before |-> <<>>, invoked |-> <<>>]

InitEmitter ==
    /\ listeners = <<>>
    /\ regOrder = [e \in Events |-> <<>>]
    /\ lastEmit = NoEmit

On(e, h) ==
    /\ listeners' = CompactAll(on(listeners, e, h))
    /\ regOrder' = [regOrder EXCEPT ![e] =
                       IF h \in Range(@) THEN @ ELSE Append(@, h)]
    /\ UNCHANGED <<lastEmit, starfieldVars, classifyVars, gestureVars, driverVars>>

Off(e, h) ==
    /\ listeners' = CompactAll(off(listeners, e, h))
    /\ regOrder' = [regOrder EXCEPT ![e] = SelectSeq(@, LAMBDA x : x # h)]
    /\ UNCHANGED <<lastEmit, starfieldVars, classifyVars, gestureVars, driverVars>>

Emit(e) ==
    LET r == emit(listeners, e) IN
    /\ listeners' = CompactAll(r.listeners)
    /\ lastEmit' = [event |-> e, before |-> regOrder[e], invoked |-> r.invoked]
    /\ regOrder' = [regOrder EXCEPT ![e] =
                       SelectSeq(@, LAMBDA x : ~(x \in OnceHandlers /\ x \in Range(r.invoked)))]
    /\ UNCHANGED <<starfieldVars, classifyVars, gestureVars, driverVars>>

NextEmitter ==
    \/ \E e \in Events, h \in Handlers : On(e, h)
    \/ \E e \in Events, h \in Handlers : Off(e, h)
    \/ \E e \in Events : Emit(e)



-----------------------------------------------------------------------------
(* GestureController: construction, initialize/start/stop, the frame loop and
   _analyzeLandmarks (src/src/starfield.js 334-525) *)

\* image coordinates are normalised to [0, 1]: 1.0 is PosUnit
PosUnit == 10
\* options.smoothingFactor 0.28, in hundredths
smoothingFactor == 28

\* (mutation) the step is subtracted
lerpAway(current, target, smoothing) ==
    current - RoundDiv((target - current) * smoothing, 100)

\* lerp(current, target, smoothing), smoothing in hundredths
lerp(current, target, smoothing) ==
    current + RoundDiv((target - current) * smoothing, 100)

\* the detector's result for one frame: no hand, or one hand's landmarks
NoHand == [present |-> FALSE]

Hand(pose, wrist, indexTip) ==
    [present |-> TRUE,
     worldLandmarks |-> WorldLandmarks(pose),
     landmarks |-> [k \in 0..20 |-> IF k = 8 THEN indexTip ELSE wrist]]

Point2(x, y) == [x |-> x, y |-> y]

PoseOf(extended) == [f \in 1..5 |-> IF f \in extended THEN "straight" ELSE "curled"]

\* three hands the detector may report: open, pointing and a fist, each with
\* its wrist and index fingertip somewhere else in the image
HandSamples ==
    { Hand(PoseOf({1, 2, 3, 4, 5}), Point2(2, 3), Point2(5, 5)),
      Hand(PoseOf({2}), Point2(8, 6), Point2(3, 2)),
      Hand(PoseOf({}), Point2(5, 9), Point2(6, 8)) }

Detections == {NoHand} \cup HandSamples

\* _analyzeLandmarks(landmarks, worldLandmarks): the controller afterwards and
\* the event payload returned
analyzeLandmarks(c, landmarks, worldLandmarks) ==
    LET fingerStates == computeFingerStates(worldLandmarks)
        gesture == determineGesture(fingerStates)
        openness == computeOpenness(worldLandmarks)
        smoothing == smoothingFactor
        smoothedOpenness == lerp(c.smoothed.openness, openness, smoothing)
        wrist == landmarks[0]
        position == Point2(PosUnit - wrist.x, wrist.y)
        smoothedPosition == Point2(lerp(c.smoothed.position.x, position.x, smoothing),
                                   lerp(c.smoothed.position.y, position.y, smoothing))
        movement == IF c.prevHandPosition # None
                    THEN Point2(smoothedPosition.x - c.prevHandPosition[1].x,
                                smoothedPosition.y - c.prevHandPosition[1].y)
                    ELSE Point2(0, 0)
        indexTip == landmarks[8]
        pointer == Point2(indexTip.x, indexTip.y)
    IN [controller |-> [c EXCEPT !.smoothed = [openness |-> smoothedOpenness,
                                               position |-> smoothedPosition],
                                 !.prevHandPosition = Some(smoothedPosition)],
        data |-> [gesture |-> gesture,
                  present |-> TRUE,
                  openness |-> smoothedOpenness,
                  fingerStates |-> fingerStates,
                  position |-> smoothedPosition,
                  movement |-> movement,
                  pointer |-> pointer]]

Event(name, payload) == [event |-> name, payload |-> payload]

\* the payload of an "error" or "status" event is a message
Message(text) == [message |-> text]

\* (mutation) the hand-absent branch keeps prevHandPosition
detectAndEmitNoReset(c, results) ==
    IF results.present
    THEN LET r == analyzeLandmarks(c, results.landmarks, results.worldLandmarks)
         IN [controller |-> r.controller, emitted |-> <<Event("update", r.data)>>]
    ELSE [controller |-> c,
          emitted |-> <<Event("update", [gesture |-> "none", present |-> FALSE])>>]

\* (mutation) the hand-absent branch also resets the smoother
detectAndEmitResetSmoother(c, results) ==
    IF results.present
    THEN LET r == analyzeLandmarks(c, results.landmarks, results.worldLandmarks)
         IN [controller |-> r.controller, emitted |-> <<Event("update", r.data)>>]
    ELSE [controller |-> [c EXCEPT !.prevHandPosition = None,
                                   !.smoothed = [openness |-> 0, position |-> Point2(0, 0)]],
          emitted |-> <<Event("update", [gesture |-> "none", present |-> FALSE])>>]

\* (mutation) the hand-absent branch emits nothing
detectAndEmitSilentLoss(c, results) ==
    IF results.present
    THEN LET r == analyzeLandmarks(c, results.landmarks, results.worldLandmarks)
         IN [controller |-> r.controller, emitted |-> <<Event("update", r.data)>>]
    ELSE [controller |-> [c EXCEPT !.prevHandPosition = None], emitted |-> <<>>]

\* the branch of processFrame taken when the detector ran (lines 430-443):
\* the controller afterwards and the events emitted
detectAndEmit(c, results) ==
    IF results.present
    THEN LET r == analyzeLandmarks(c, results.landmarks, results.worldLandmarks)
         IN [controller |-> r.controller, emitted |-> <<Event("update", r.data)>>]
    ELSE [controller |-> [c EXCEPT !.prevHandPosition = None],
          emitted |-> <<Event("update", [gesture |-> "none", present |-> FALSE])>>]

\* bounds of a run
\* video.currentTime stays in 0..MaxVideoTime
MaxVideoTime == 2
\* start() is not called with MaxPending callbacks pending
MaxPending == 2
\* the detector is called at most MaxDetections times
MaxDetections == 3

\* what can make initialize() fail: FilesetResolver.forVisionTasks or
\* HandLandmarker.createFromOptions rejecting
LoadFailures == {"fileset", "landmarker"}

\* (mutation) ready is set before the detector is loaded
initializeReadyEarly(c, outcome) ==
    IF outcome = "ok"
    THEN [controller |-> [c EXCEPT !.model = "loaded", !.ready = TRUE],
          emitted |-> <<Event("status", Message("ready"))>>,
          thrown |-> None]
    ELSE [controller |-> [c EXCEPT !.ready = TRUE],
          emitted |-> <<Event("error", Message(outcome))>>,
          thrown |-> Some(Message(outcome))]

\* initialize(): outcome is "ok" or the failure of the detector loading; the
\* controller afterwards, the events emitted and the error rethrown
initialize(c, outcome) ==
    IF outcome = "ok"
    THEN [controller |-> [c EXCEPT !.model = "loaded", !.ready = TRUE],
          emitted |-> <<Event("status", Message("ready"))>>,
          thrown |-> None]
    ELSE [controller |-> c,
          emitted |-> <<Event("error", Message(outcome))>>,
          thrown |-> Some(Message(outcome))]

NoHistory ==
    [initError |-> None, afterStop |-> -1, lastStamp |-> -1, restarted |-> FALSE,
     raw |-> None]

\* (mutation) the timestamp test never skips
sameTimestampNever(c, v) == FALSE

\* the test of processFrame for a frame already seen (line 419)
sameTimestamp(c, v) == v.currentTime = c.lastVideoTime

\* the raw values _analyzeLandmarks smooths for a hand: openness, x and y
RawOf(results) ==
    <<computeOpenness(results.worldLandmarks),
      PosUnit - results.landmarks[0].x,
      results.landmarks[0].y>>

\* the observer after a detector call on the frame with timestamp time
DetectorCalled(h, time, results) ==
    [h EXCEPT !.afterStop = IF @ = -1 THEN -1 ELSE Min(@ + 1, 2),
              !.raw = IF results.present THEN Some(RawOf(results)) ELSE None,
              !.lastStamp = time,
              !.restarted = FALSE]

NewController ==
    [running |-> FALSE,
     ready |-> FALSE,
     model |-> Null,
     lastVideoTime |-> -1,
     prevHandPosition |-> None,
     smoothed |-> [openness |-> 0, position |-> Point2(0, 0)]]

InitController ==
    /\ controller = NewController
    /\ video = [currentTime |-> 0, sized |-> FALSE]
    /\ rafQueue = <<>>
    /\ emitted = <<>>
    /\ lastStep = "constructed"
    /\ detections = [count |-> 0, prev |-> "none", last |-> "none"]
    /\ history = NoHistory

otherThanGesture == <<starfieldVars, emitterVars, classifyVars, driverVars>>

\* initialize(), the detector loading; the driver calls initialize() until
\* the controller is ready, and not again
InitializeOk ==
    /\ ~controller.ready
    /\ LET r == initialize(controller, "ok") IN
       /\ controller' = r.controller
       /\ emitted' = r.emitted
       /\ history' = [history EXCEPT !.initError = r.thrown]
    /\ lastStep' = "initialized"
    /\ UNCHANGED <<video, rafQueue, detections, otherThanGesture>>

\* initialize(), the detector failing to load: the error is emitted and rethrown
InitializeFail ==
    /\ ~controller.ready
    /\ \E reason \in LoadFailures :
           LET r == initialize(controller, reason) IN
           /\ controller' = r.controller
           /\ emitted' = r.emitted
           /\ history' = [history EXCEPT !.initError = r.thrown]
    /\ lastStep' = "initializeFailed"
    /\ UNCHANGED <<video, rafQueue, detections, otherThanGesture>>

\* start(): _loop() runs at once and schedules processFrame
Start ==
    /\ Len(rafQueue) < MaxPending
    /\ IF ~controller.ready \/ controller.running
       THEN UNCHANGED <<controller, rafQueue, history>>
       ELSE /\ controller' = [controller EXCEPT !.running = TRUE, !.lastVideoTime = -1]
            /\ rafQueue' = Append(rafQueue, "processFrame")
            /\ history' = [history EXCEPT !.afterStop = -1, !.restarted = TRUE]
    /\ emitted' = <<>>
    /\ lastStep' = "start"
    /\ UNCHANGED <<video, detections, otherThanGesture>>

\* stop()
Stop ==
    /\ controller' = [controller EXCEPT !.running = FALSE]
    /\ history' = IF controller.running THEN [history EXCEPT !.afterStop = 0] ELSE history
    /\ emitted' = <<>>
    /\ lastStep' = "stop"
    /\ UNCHANGED <<video, rafQueue, detections, otherThanGesture>>

\* the camera stream delivers its first frame: videoWidth and videoHeight are set
VideoSized ==
    /\ ~video.sized
    /\ video' = [video EXCEPT !.sized = TRUE]
    /\ UNCHANGED <<controller, rafQueue, emitted, lastStep, detections, history,
                   otherThanGesture>>

\* the video presents its next frame
VideoAdvance ==
    /\ video.currentTime < MaxVideoTime
    /\ video' = [video EXCEPT !.currentTime = @ + 1]
    /\ UNCHANGED <<controller, rafQueue, emitted, lastStep, detections, history,
                   otherThanGesture>>

\* the browser runs a scheduled _loop callback
RunLoop ==
    /\ rafQueue # <<>> /\ Head(rafQueue) = "loop"
    /\ rafQueue' = IF controller.running THEN Append(Tail(rafQueue), "processFrame")
                   ELSE Tail(rafQueue)
    /\ emitted' = <<>>
    /\ lastStep' = IF controller.running THEN "loop" ELSE "loopStopped"
    /\ UNCHANGED <<controller, video, detections, history, otherThanGesture>>

\* the browser runs a scheduled processFrame callback; results is what the
\* detector returns if it is called
ProcessFrame(results) ==
    /\ rafQueue # <<>> /\ Head(rafQueue) = "processFrame"
    /\ IF controller.model = Null
       THEN /\ emitted' = <<Event("error", Message("model not loaded"))>>
            /\ controller' = [controller EXCEPT !.running = FALSE]
            /\ rafQueue' = Tail(rafQueue)
            /\ lastStep' = "noModel"
            /\ UNCHANGED <<detections, history>>
       ELSE IF sameTimestamp(controller, video)
       THEN /\ rafQueue' = Append(Tail(rafQueue), "loop")
            /\ emitted' = <<>>
            /\ lastStep' = "sameFrame"
            /\ UNCHANGED <<controller, detections, history>>
       ELSE IF ~video.sized
       THEN /\ controller' = [controller EXCEPT !.lastVideoTime = video.currentTime]
            /\ rafQueue' = Append(Tail(rafQueue), "loop")
            /\ emitted' = <<>>
            /\ lastStep' = "noVideoSize"
            /\ UNCHANGED <<detections, history>>
       ELSE /\ detections.count < MaxDetections
            /\ LET r == detectAndEmit([controller EXCEPT !.lastVideoTime = video.currentTime],
                                      results)
               IN /\ controller' = r.controller
                  /\ emitted' = r.emitted
            /\ rafQueue' = Append(Tail(rafQueue), "loop")
            /\ lastStep' = "detect"
            /\ detections' = [count |-> detections.count + 1,
                              prev |-> detections.last,
                              last |-> IF results.present THEN "present" ELSE "absent"]
            /\ history' = DetectorCalled(history, video.currentTime, results)
    /\ UNCHANGED <<video, otherThanGesture>>

NextGesture ==
    \/ InitializeOk
    \/ InitializeFail
    \/ Start
    \/ Stop
    \/ VideoSized
    \/ VideoAdvance
    \/ RunLoop
    \/ \E results \in Detections : ProcessFrame(results)


-----------------------------------------------------------------------------
(* The driver (src/src/main.js 39-207) with CONFIG (src/src/starfield.js
   527-566).  Radii are in tenths, angles in milliradians, openness in tenths
   of a millimetre, lerp factors in hundredths, delays in milliseconds. *)

initialRadius == 580
minRadius == 280
maxRadius == 860
\* CONFIG.camera.rotateSensitivity 3.8 rad per unit of movement
rotateSensitivity == 3800
zoomLerpFactor == 8
targetRadiusLerpFactor == 25
minOpenness == 550
maxOpenness == 1600
highlightClearDelay == 2200
noGestureClearDelay == 800
highlightEmptyClearDelay == 600
\* Math.PI and the pole margin of updateCamera
PI == 3142
epsilon == 160

\* (mutation) the weights are (1 + t) and -t
MathUtilsLerpAway(x, y, t) == RoundDiv((100 + t) * x - t * y, 100)

\* THREE.MathUtils.lerp(x, y, t) = (1 - t) * x + t * y, t in hundredths
MathUtilsLerp(x, y, t) == RoundDiv((100 - t) * x + t * y, 100)

\* (mutation) the openness is not clamped to [minOpenness, maxOpenness]
mapOpennessToRadiusNoClamp(openness) ==
    minRadius + RoundDiv((openness - minOpenness) * (maxRadius - minRadius),
                         maxOpenness - minOpenness)

\* mapOpennessToRadius(openness)
mapOpennessToRadius(openness) ==
    LET clamped == Min(Max(openness, minOpenness), maxOpenness)
    IN minRadius + RoundDiv((clamped - minOpenness) * (maxRadius - minRadius),
                            maxOpenness - minOpenness)

\* (mutation) phi is not clamped
updateCameraNoClamp(cs, movement) ==
    LET turned ==
            IF movement # None
            THEN [cs EXCEPT
                     !.theta = @ + RoundDiv(movement[1].x * rotateSensitivity, PosUnit),
                     !.phi = @ + RoundDiv(movement[1].y * rotateSensitivity, PosUnit)]
            ELSE cs
    IN [turned EXCEPT !.radius = MathUtilsLerp(@, turned.targetRadius, zoomLerpFactor)]

\* updateCamera(movement); movement is None when the render loop calls it
updateCamera(cs, movement) ==
    LET turned ==
            IF movement # None
            THEN [cs EXCEPT
                     !.theta = @ + RoundDiv(movement[1].x * rotateSensitivity, PosUnit),
                     !.phi = Min(Max(@ + RoundDiv(movement[1].y * rotateSensitivity, PosUnit),
                                     epsilon),
                                 PI - epsilon)]
            ELSE cs
    IN [turned EXCEPT !.radius = MathUtilsLerp(@, turned.targetRadius, zoomLerpFactor)]

(* The timer table.  setTimeout returns ids 1, 2, 3, ...; clearHighlightTimer
   holds 0 for null. *)
setTimeout(tm, delay) ==
    [tm EXCEPT !.pending = @ \cup {[id |-> tm.nextId, remaining |-> delay]},
               !.nextId = @ + 1]

clearTimeout(tm, id) ==
    [tm EXCEPT !.pending = {t \in @ : t.id # id},
               !.cancelled = @ \cup {t.id : t \in {u \in tm.pending : u.id = id}}]

\* the state main.js handlers work on: app, timers and the starfield together
Main(a, tm, sf) == [app |-> a, timers |-> tm, starfield |-> sf]

\* (mutation) a scheduleHighlightClear that arms without cancelling
scheduleHighlightClearNoCancel(m, delay) ==
    [m EXCEPT !.app.clearHighlightTimer = m.timers.nextId,
              !.timers = setTimeout(m.timers, delay)]

\* scheduleHighlightClear(delay)
scheduleHighlightClear(m, delay) ==
    LET cleared == IF m.app.clearHighlightTimer # 0
                   THEN clearTimeout(m.timers, m.app.clearHighlightTimer)
                   ELSE m.timers
    IN [m EXCEPT !.app.clearHighlightTimer = cleared.nextId,
                 !.timers = setTimeout(cleared, delay)]

\* (mutation) a timeout callback that forgets activeSelection
clearCallbackKeepsSelection(m, ud) ==
    [m EXCEPT !.starfield = clearHighlight(m.starfield, ud)]

\* the callback scheduleHighlightClear arms
clearCallback(m, ud) ==
    [m EXCEPT !.starfield = clearHighlight(m.starfield, ud),
              !.app.activeSelection = Null,
              !.app.selectionStatus = "none"]

\* (mutation) an updateSelection that highlights the object under the pointer
\* on every frame
updateSelectionAlways(m, ud, hit) ==
    IF hit = Null
    THEN scheduleHighlightClear(m, highlightEmptyClearDelay)
    ELSE scheduleHighlightClear(
             [m EXCEPT !.app.activeSelection = hit,
                       !.starfield = highlight(m.starfield, ud, hit),
                       !.app.selectionStatus = hit],
             highlightClearDelay)

\* updateSelection(pointerCoords); hit is the nearest object the ray through
\* the pointer intersects, or Null when intersects is empty
updateSelection(m, ud, hit) ==
    IF hit = Null
    THEN scheduleHighlightClear(m, highlightEmptyClearDelay)
    ELSE LET m1 == IF m.app.activeSelection # hit
                   THEN [m EXCEPT !.app.activeSelection = hit,
                                  !.starfield = highlight(m.starfield, ud, hit),
                                  !.app.selectionStatus = hit]
                   ELSE m
         IN scheduleHighlightClear(m1, highlightClearDelay)

\* the "update" handler registered by initGestures
onUpdate(m, ud, data, hit) ==
    IF ~data.present
    THEN scheduleHighlightClear([m EXCEPT !.app.gestureStatus = "none"],
                                noGestureClearDelay)
    ELSE LET radius == mapOpennessToRadius(data.openness)
             m1 == [m EXCEPT !.app.gestureStatus = data.gesture,
                             !.app.cameraState.targetRadius =
                                 MathUtilsLerp(@, radius, targetRadiusLerpFactor)]
             m2 == [m1 EXCEPT !.app.cameraState =
                                 updateCamera(@, Some(data.movement))]
         IN IF data.gesture = "point"
            THEN updateSelection(m2, ud, hit)
            ELSE m2

\* whether the handler arms a timer for this event
Schedules(data) == ~data.present \/ data.gesture = "point"

\* bounds of a run
\* setTimeout is called at most MaxTimers times
MaxTimers == 5
\* time advances in steps of TickMs milliseconds
TickMs == 200

NewApp ==
    [cameraState |-> [radius |-> initialRadius,
                      theta |-> RoundDiv(PI * 45, 100),
                      phi |-> RoundDiv(PI * 50, 100),
                      targetRadius |-> initialRadius],
     activeSelection |-> Null,
     clearHighlightTimer |-> 0,
     selectionStatus |-> "none",
     gestureStatus |-> "starting"]

NotPointing == [misses |-> 0, elapsed |-> 0]

NoDelays == [noHand |-> 0, noTarget |-> 0, selected |-> 0]

NoSelectionLog ==
    [handGone |-> -1, missOn |-> Null, missAge |-> 0, touched |-> FALSE, rehit |-> FALSE,
     delays |-> NoDelays]

\* update events that leave the camera where it starts: openness maps to the
\* initial radius and the hand does not move
RestingOpenness ==
    CHOOSE o \in minOpenness..maxOpenness : mapOpennessToRadius(o) = initialRadius

\* mapOpennessToRadius has not been applied
NoZoomMap == [openness |-> minOpenness, radius |-> None]

NoCameraLog ==
    [updates |-> 0, renders |-> 0, step |-> "none", before |-> NewApp.cameraState,
     openness |-> RestingOpenness]

InitDriver ==
    /\ app = NewApp
    /\ timers = [pending |-> {}, nextId |-> 1, cancelled |-> {}, fired |-> {}]
    /\ pointing = NotPointing
    /\ selectionLog = NoSelectionLog
    /\ cameraLog = NoCameraLog
    /\ zoomMap = NoZoomMap

otherThanDriver == <<userData, emitterVars, classifyVars, gestureVars>>

UpdateAbsent == [gesture |-> "none", present |-> FALSE]

UpdatePresent(gesture) ==
    [gesture |-> gesture,
     present |-> TRUE,
     openness |-> RestingOpenness,
     fingerStates |-> [i \in 1..5 |-> IF gesture = "point" THEN i = 2 ELSE gesture = "open"],
     position |-> Point2(5, 5),
     movement |-> Point2(0, 0),
     pointer |-> Point2(5, 5)]

SelectionUpdates == {UpdateAbsent, UpdatePresent("point"), UpdatePresent("open")}

\* the empty raycasts in a row on a selected object, and the time since the third
PointingAfter(data, hit) ==
    IF data.present /\ data.gesture = "point"
    THEN IF hit # Null THEN NotPointing
         ELSE IF pointing.misses = 0
              THEN (IF app.activeSelection # Null /\ starfield.highlighted # Null
                    THEN [misses |-> 1, elapsed |-> 0] ELSE NotPointing)
              ELSE IF pointing.misses < 3
              THEN [misses |-> pointing.misses + 1, elapsed |-> 0]
              ELSE pointing
    ELSE IF pointing.misses = 3 THEN pointing ELSE NotPointing

NoMiss == [missOn |-> Null, missAge |-> 0, touched |-> FALSE, rehit |-> FALSE]

\* the observer after an update event; called is whether the handler called
\* Starfield.highlight, armed the delay it passed to setTimeout (0: no call)
SelectionLogAfter(data, hit, called, armed) ==
    LET selected == app.activeSelection # Null /\ starfield.highlighted # Null
        gone == IF data.present THEN -1
                ELSE IF selectionLog.handGone >= 0 THEN selectionLog.handGone
                ELSE IF selected THEN 0
                ELSE -1
        miss == IF data.present /\ data.gesture = "point"
                THEN IF hit = Null
                     THEN (IF selected
                           THEN [missOn |-> app.activeSelection, missAge |-> 0,
                                 touched |-> FALSE, rehit |-> FALSE]
                           ELSE NoMiss)
                     ELSE IF selectionLog.missOn = hit /\ ~selectionLog.rehit
                     THEN [missOn |-> hit, missAge |-> selectionLog.missAge,
                           touched |-> selectionLog.touched \/ called, rehit |-> TRUE]
                     ELSE NoMiss
                ELSE IF selectionLog.rehit THEN NoMiss
                ELSE [missOn |-> selectionLog.missOn, missAge |-> selectionLog.missAge,
                      touched |-> selectionLog.touched, rehit |-> FALSE]
        delays == IF armed = 0 THEN selectionLog.delays
                  ELSE IF ~data.present
                  THEN [selectionLog.delays EXCEPT !.noHand = armed]
                  ELSE IF hit = Null
                  THEN [selectionLog.delays EXCEPT !.noTarget = armed]
                  ELSE [selectionLog.delays EXCEPT !.selected = armed]
    IN [handGone |-> gone, missOn |-> miss.missOn, missAge |-> miss.missAge,
        touched |-> miss.touched, rehit |-> miss.rehit, delays |-> delays]

\* the observer after TickMs milliseconds: an empty raycast older than the
\* no-target delay is forgotten
SelectionLogLater ==
    LET gone == IF selectionLog.handGone >= 0
                THEN Min(selectionLog.handGone + TickMs, noGestureClearDelay + TickMs)
                ELSE -1
        miss == IF selectionLog.missOn = Null \/ selectionLog.rehit
                THEN NoMiss
                ELSE IF selectionLog.missAge + TickMs >= highlightEmptyClearDelay
                THEN NoMiss
                ELSE [selectionLog EXCEPT !.missAge = @ + TickMs]
    IN [handGone |-> gone, missOn |-> miss.missOn, missAge |-> miss.missAge,
        touched |-> miss.touched, rehit |-> miss.rehit, delays |-> selectionLog.delays]

\* the controller emits "update": the handler of main.js runs
UpdateEvent(data, hit) ==
    /\ hit # Null => (data.present /\ data.gesture = "point")
    /\ Schedules(data) => timers.nextId <= MaxTimers
    /\ LET m == onUpdate(Main(app, timers, starfield), userData, data, hit) IN
       /\ app' = m.app
       /\ timers' = m.timers
       /\ starfield' = m.starfield
       /\ lastCall' = IF m.starfield # starfield
                      THEN [op |-> "highlight", object |-> hit, before |-> starfield]
                      ELSE lastCall
       /\ selectionLog' = SelectionLogAfter(data, hit, m.starfield # starfield,
              IF m.timers.nextId = timers.nextId THEN 0
              ELSE (CHOOSE t \in m.timers.pending :
                        t.id = m.app.clearHighlightTimer).remaining)
    /\ pointing' = PointingAfter(data, hit)
    /\ UNCHANGED <<cameraLog, zoomMap, otherThanDriver>>

Due == {t \in timers.pending : t.remaining <= 0}

\* TickMs milliseconds pass; a timeout that is due runs first
Tick ==
    /\ Due = {}
    /\ timers.pending # {}
    /\ timers' = [timers EXCEPT !.pending =
                     {[t EXCEPT !.remaining = @ - TickMs] : t \in @}]
    /\ pointing' = IF pointing.misses = 3
                   THEN [pointing EXCEPT !.elapsed =
                            Min(@ + TickMs, highlightClearDelay + TickMs)]
                   ELSE pointing
    /\ selectionLog' = SelectionLogLater
    /\ UNCHANGED <<app, cameraLog, zoomMap, starfieldVars, otherThanDriver>>

\* the browser runs the callback of a timeout that is due
TimerFires ==
    \E t \in Due :
        LET m == clearCallback(Main(app, timers, starfield), userData) IN
        /\ app' = m.app
        /\ starfield' = m.starfield
        /\ lastCall' = [op |-> "clearHighlight", object |-> Null, before |-> starfield]
        /\ timers' = [timers EXCEPT !.pending = @ \ {t}, !.fired = @ \cup {t.id}]
        /\ selectionLog' = IF selectionLog.missOn # Null /\ ~selectionLog.rehit
                           THEN [selectionLog EXCEPT !.touched = TRUE]
                           ELSE selectionLog
        /\ UNCHANGED <<pointing, cameraLog, zoomMap, otherThanDriver>>

\* renderLoop(): one display frame
RenderTick ==
    /\ app' = [app EXCEPT !.cameraState = updateCamera(@, None)]
    /\ UNCHANGED <<timers, pointing, selectionLog, cameraLog, zoomMap, starfieldVars, otherThanDriver>>

-----------------------------------------------------------------------------
(* Specifications.  Each one drives one component; the state of the others
   stays as constructed. *)

\* one construction of the scene, for the specifications not about it
InitSceneFixed ==
    /\ userData = BaseUserData(CHOOSE c \in ColourChoices : TRUE)
    /\ starfield = NewStarfield(userData)
    /\ lastCall = NoCall

InitEmitterOnly ==
    /\ InitSceneFixed
    /\ InitEmitter
    /\ InitClassifyIdle
    /\ InitController
    /\ InitDriver
    /\ InitClassifyIdle

SpecEmitter == InitEmitterOnly /\ [][NextEmitter]_vars

InitGesture ==
    /\ InitSceneFixed
    /\ InitEmitter
    /\ InitClassifyIdle
    /\ InitController
    /\ InitDriver

SpecGesture == InitGesture /\ [][NextGesture]_vars

InitSelection ==
    /\ InitSceneFixed
    /\ InitEmitter
    /\ InitClassifyIdle
    /\ InitController
    /\ InitDriver

NextSelection ==
    \/ \E data \in SelectionUpdates, hit \in pickableObjects \cup {Null} :
           UpdateEvent(data, hit)
    \/ Tick
    \/ TimerFires
    \/ RenderTick

SpecSelection == InitSelection /\ [][NextSelection]_vars

-----------------------------------------------------------------------------
(* Specification SpecCamera: "update" events that move and zoom the camera,
   interleaved with render ticks *)

\* bounds of a run
\* at most MaxUpdates update events
MaxUpdates == 3
\* at most MaxRenders render ticks
MaxRenders == 2

\* the hand moved by a fifth of the image width or three tenths of its height
CameraMoves == {Point2(2, 0), Point2(0, 3), Point2(0, -3)}
CameraOpenness == {minOpenness, maxOpenness}

CameraUpdates ==
    {[UpdatePresent("open") EXCEPT !.openness = o, !.movement = mv] :
        o \in CameraOpenness, mv \in CameraMoves}

\* the controller emits "update": the handler of main.js runs
CameraUpdate(data) ==
    /\ cameraLog.updates < MaxUpdates
    /\ LET m == onUpdate(Main(app, timers, starfield), userData, data, Null) IN
       /\ app' = m.app
       /\ timers' = m.timers
       /\ starfield' = m.starfield
    /\ cameraLog' = [cameraLog EXCEPT !.updates = @ + 1, !.step = "update",
                                      !.before = app.cameraState,
                                      !.openness = data.openness]
    /\ UNCHANGED <<userData, lastCall, pointing, selectionLog, zoomMap, otherThanDriver>>

\* renderLoop(): one display frame
CameraRender ==
    /\ cameraLog.renders < MaxRenders
    /\ app' = [app EXCEPT !.cameraState = updateCamera(@, None)]
    /\ cameraLog' = [cameraLog EXCEPT !.renders = @ + 1, !.step = "render",
                                      !.before = app.cameraState]
    /\ UNCHANGED <<timers, pointing, selectionLog, zoomMap, starfieldVars, otherThanDriver>>

InitCamera == InitSelection

NextCamera ==
    \/ \E data \in CameraUpdates : CameraUpdate(data)
    \/ CameraRender

SpecCamera == InitCamera /\ [][NextCamera]_vars

-----------------------------------------------------------------------------
(* Specification SpecZoom: an open hand was held until the zoom settled
   (targetRadius and radius at maxRadius to the tenth); from there the hand
   closes, each update event carrying an openness no larger than the one
   before, with render ticks in between *)

ZoomOpenness ==
    {maxOpenness, minOpenness + 2 * ((maxOpenness - minOpenness) \div 3),
     minOpenness + (maxOpenness - minOpenness) \div 3, minOpenness}

InitZoom ==
    /\ InitSceneFixed
    /\ InitEmitter
    /\ InitClassifyIdle
    /\ InitController
    /\ app = [NewApp EXCEPT !.cameraState.targetRadius = maxRadius,
                            !.cameraState.radius = maxRadius,
                            !.gestureStatus = "open"]
    /\ timers = [pending |-> {}, nextId |-> 1, cancelled |-> {}, fired |-> {}]
    /\ pointing = NotPointing
    /\ selectionLog = NoSelectionLog
    /\ cameraLog = [NoCameraLog EXCEPT !.openness = maxOpenness,
                                       !.before = app.cameraState]
    /\ zoomMap = NoZoomMap

\* the controller emits "update" for a hand no more open than on the frame before
ZoomUpdate(openness) ==
    /\ openness <= cameraLog.openness
    /\ LET data == [UpdatePresent("open") EXCEPT !.openness = openness]
           m == onUpdate(Main(app, timers, starfield), userData, data, Null) IN
       /\ app' = m.app
       /\ timers' = m.timers
       /\ starfield' = m.starfield
    /\ cameraLog' = [cameraLog EXCEPT !.step = "update",
                                      !.before = app.cameraState,
                                      !.openness = openness]
    /\ UNCHANGED <<userData, lastCall, pointing, selectionLog, zoomMap, otherThanDriver>>

\* renderLoop(): one display frame
ZoomRender ==
    /\ app' = [app EXCEPT !.cameraState = updateCamera(@, None)]
    /\ cameraLog' = [cameraLog EXCEPT !.step = "render", !.before = app.cameraState]
    /\ UNCHANGED <<timers, pointing, selectionLog, zoomMap, starfieldVars, otherThanDriver>>

NextZoom ==
    \/ \E openness \in ZoomOpenness : ZoomUpdate(openness)
    \/ ZoomRender

SpecZoom == InitZoom /\ [][NextZoom]_vars

-----------------------------------------------------------------------------
(* Specification SpecZoomMap: mapOpennessToRadius on every openness from 0 to
   past maxOpenness, in steps of 0.1 mm *)

OpennessInputs == 0..(minOpenness + maxOpenness)

InitZoomMap ==
    /\ InitSceneFixed
    /\ InitEmitter
    /\ InitClassifyIdle
    /\ InitController
    /\ app = NewApp
    /\ timers = [pending |-> {}, nextId |-> 1, cancelled |-> {}, fired |-> {}]
    /\ pointing = NotPointing
    /\ selectionLog = NoSelectionLog
    /\ cameraLog = NoCameraLog
    /\ \E o \in OpennessInputs : zoomMap = [openness |-> o, radius |-> None]

MapOpenness ==
    /\ zoomMap.radius = None
    /\ zoomMap' = [zoomMap EXCEPT !.radius = Some(mapOpennessToRadius(zoomMap.openness))]
    /\ UNCHANGED <<app, timers, pointing, selectionLog, cameraLog, starfieldVars, otherThanDriver>>

NextZoomMap == MapOpenness

SpecZoomMap == InitZoomMap /\ [][NextZoomMap]_vars

-----------------------------------------------------------------------------
(* Specification SpecStarfield: any sequence of calls of the Starfield API *)

InitStarfield ==
    /\ \E c \in ColourChoices : userData = BaseUserData(c)
    /\ starfield = NewStarfield(userData)
    /\ lastCall = NoCall
    /\ InitEmitter
    /\ InitClassifyIdle
    /\ InitController
    /\ InitDriver

\* bound on stacking: the object is not already scaled MaxStack times
CanHighlight(o) ==
    starfield.scale[o] < ScaleAfter(userData[o].baseScale, MaxStack)

Highlight(o) ==
    /\ CanHighlight(o)
    /\ starfield' = highlight(starfield, userData, o)
    /\ lastCall' = [op |-> "highlight", object |-> o, before |-> starfield]
    /\ UNCHANGED <<userData, emitterVars, classifyVars, gestureVars, driverVars>>

HighlightNull ==
    /\ starfield' = highlight(starfield, userData, Null)
    /\ lastCall' = [op |-> "highlight", object |-> Null, before |-> starfield]
    /\ UNCHANGED <<userData, emitterVars, classifyVars, gestureVars, driverVars>>

ClearHighlight ==
    /\ starfield' = clearHighlight(starfield, userData)
    /\ lastCall' = [op |-> "clearHighlight", object |-> Null, before |-> starfield]
    /\ UNCHANGED <<userData, emitterVars, classifyVars, gestureVars, driverVars>>

NextStarfield ==
    \/ \E o \in pickableObjects : Highlight(o)
    \/ HighlightNull
    \/ ClearHighlight

SpecStarfield == InitStarfield /\ [][NextStarfield]_vars

-----------------------------------------------------------------------------
(* Specification SpecClassify: the analysis functions on every sample hand *)

InitClassify ==
    /\ InitSceneFixed
    /\ InitEmitter
    /\ \E pose \in AllPoses : worldInput = WorldLandmarks(pose)
    /\ analysis = NoAnalysis
    /\ scaling = NoScaling
    /\ InitController
    /\ InitDriver

Classify ==
    /\ ~analysis.done
    /\ analysis' = Analyze(worldInput)
    /\ UNCHANGED <<worldInput, scaling, starfieldVars, emitterVars, gestureVars, driverVars>>

NextClassify == Classify

SpecClassify == InitClassify /\ [][NextClassify]_vars

-----------------------------------------------------------------------------
(* Specification SpecScale: computeFingerStates on every sample hand and on
   the same hand with all coordinates multiplied by a factor num / den *)

ScaleFactors == {<<1, 2>>, <<3, 2>>, <<2, 1>>}

\* all landmark coordinates times factor[1] / factor[2]
Scaled(worldLandmarks, factor) ==
    [k \in DOMAIN worldLandmarks |->
        Point3(RoundDiv(worldLandmarks[k].x * factor[1], factor[2]),
               RoundDiv(worldLandmarks[k].y * factor[1], factor[2]),
               RoundDiv(worldLandmarks[k].z * factor[1], factor[2]))]

InitScale ==
    /\ InitSceneFixed
    /\ InitEmitter
    /\ \E pose \in AllPoses : worldInput = WorldLandmarks(pose)
    /\ analysis = NoAnalysis
    /\ \E factor \in ScaleFactors : scaling = [factor |-> factor, fingerStates |-> None]
    /\ InitController
    /\ InitDriver

ClassifyScaled ==
    /\ scaling.fingerStates = None
    /\ scaling' = [scaling EXCEPT !.fingerStates =
                       Some(computeFingerStates(Scaled(worldInput, scaling.factor)))]
    /\ UNCHANGED <<worldInput, analysis, starfieldVars, emitterVars, gestureVars, driverVars>>

NextScale ==
    \/ Classify
    \/ ClassifyScaled

SpecScale == InitScale /\ [][NextScale]_vars

-----------------------------------------------------------------------------
\* C1: at most one object carries the isHighlighted marker, and it is exactly
\* the object Starfield.highlighted refers to.
C1_SingleHighlight ==
    /\ Cardinality(starfield.isHighlighted) <= 1
    /\ starfield.isHighlighted =
           (IF starfield.highlighted = Null THEN {} ELSE {starfield.highlighted})

\* planet1 was highlighted while star1 was: star1 lost its marker
C1_Witness ==
    /\ lastCall.op = "highlight"
    /\ lastCall.object = "planet1"
    /\ lastCall.before.highlighted = "star1"
    /\ starfield.isHighlighted = {"planet1"}

\* C2: highlight(obj) on the already highlighted object changes nothing
\* (scale, emissive state and marker stay as after the first call).
C2_HighlightIdempotent ==
    (lastCall.op = "highlight" /\ lastCall.object # Null
        /\ lastCall.before.highlighted = lastCall.object)
    => starfield = lastCall.before

-----------------------------------------------------------------------------
Count(h, s) == Cardinality({i \in 1..Len(s) : s[i] = h})

\* C3: for every 5-boolean finger-state vector determineGesture returns "open"
\* with at least 4 flags true, "fist" with none, "point" with exactly the index
\* flag, and "neutral" otherwise.
C3_ClassifierTable ==
    analysis.done =>
        LET fs == analysis.fingerStates
            n == Cardinality({i \in 1..5 : fs[i]})
        IN analysis.gesture =
              (IF n >= 4 THEN "open"
               ELSE IF n = 0 THEN "fist"
               ELSE IF fs = <<FALSE, TRUE, FALSE, FALSE, FALSE>> THEN "point"
               ELSE "neutral")

\* thumb and index extended: not an exact "point", so "neutral"
C3_Witness ==
    /\ analysis.done
    /\ analysis.fingerStates = <<TRUE, TRUE, FALSE, FALSE, FALSE>>
    /\ analysis.gesture = "neutral"

-----------------------------------------------------------------------------
\* C9: when a handler unregisters itself during its own invocation, every
\* handler registered when the emission began is still invoked exactly once
\* in it, the handler that removed itself is no longer registered afterwards,
\* and an emission invokes no handler that was not registered at its start.
C9_SafeSelfRemoval ==
    [][\A e \in Events :
          Emit(e) =>
             LET before == Registered(listeners, e)
                 invoked == lastEmit'.invoked
             IN /\ \A h \in Range(before) : Count(h, invoked) = 1
                /\ Range(invoked) \subseteq Range(before)
                /\ \A h \in Range(invoked) \cap OnceHandlers :
                       h \notin Range(Registered(listeners', e))]_vars

\* the one-shot handler ran first and removed itself; both others still ran
C9_Witness ==
    /\ lastEmit.event = "update"
    /\ lastEmit.invoked = <<"once", "hA", "hB">>
    /\ listeners["update"] = <<"hA", "hB">>

\* C10: _emit(event) invokes the handlers registered for that event, each
\* once, in the order of their on() calls, and no handler of another event.
C10_RegistrationOrder ==
    lastEmit.event # Null => lastEmit.invoked = lastEmit.before

\* hB was registered before hA for "update"; "once" only for "error"
C10_Witness ==
    /\ lastEmit.event = "update"
    /\ lastEmit.invoked = <<"hB", "hA">>
    /\ regOrder["error"] = <<"once">>

-----------------------------------------------------------------------------
\* C4: on the first hand-present frame after a hand-absent frame the emitted
\* update carries movement {x: 0, y: 0}.
C4_ZeroMovementOnReacquire ==
    (lastStep = "detect" /\ detections.last = "present" /\ detections.prev = "absent")
    => /\ Len(emitted) = 1
       /\ emitted[1].event = "update"
       /\ emitted[1].payload.movement = Point2(0, 0)

\* present, absent, present: the hand is back at a smoothed position that is
\* not the origin
C4_Witness ==
    /\ lastStep = "detect"
    /\ detections = [count |-> 3, prev |-> "absent", last |-> "present"]
    /\ emitted[1].payload.position # Point2(0, 0)
    /\ emitted[1].payload.movement = Point2(0, 0)

HandGestures == {"open", "fist", "point", "neutral"}

PresentFields ==
    {"gesture", "present", "openness", "fingerStates", "position", "movement", "pointer"}

\* C7: a processed frame emits exactly one "update" event: exactly
\* {gesture: "none", present: false} when no hand was detected, otherwise
\* present = true with a hand gesture and the six other fields.
C7_OneUpdatePerFrame ==
    lastStep = "detect" =>
        /\ Len(emitted) = 1
        /\ emitted[1].event = "update"
        /\ LET p == emitted[1].payload IN
           /\ IF detections.last = "absent"
              THEN p = [gesture |-> "none", present |-> FALSE]
              ELSE /\ DOMAIN p = PresentFields
                   /\ p.present = TRUE
                   /\ p.gesture \in HandGestures
           /\ (p.present = FALSE) <=> (p.gesture = "none")

\* a hand-absent frame processed right after a hand-present one
C7_Witness ==
    /\ lastStep = "detect"
    /\ detections.prev = "present" /\ detections.last = "absent"
    /\ emitted = <<Event("update", [gesture |-> "none", present |-> FALSE])>>

\* C8: a hand-absent frame leaves smoothed.openness and smoothed.position as
\* they were, sets prevHandPosition to null and emits the "none" gesture; it
\* changes nothing else of the controller but lastVideoTime.
C8_AbsentFrameKeepsSmoother ==
    [][(ProcessFrame(NoHand) /\ lastStep' = "detect") =>
          /\ controller'.smoothed = controller.smoothed
          /\ controller'.prevHandPosition = None
          /\ controller' = [controller EXCEPT !.prevHandPosition = None,
                                              !.lastVideoTime = video.currentTime]
          /\ emitted' = <<Event("update", [gesture |-> "none", present |-> FALSE])>>]_vars

\* the hand is lost after a frame that moved the smoother off its initial value
C8_Witness ==
    /\ lastStep = "detect"
    /\ detections.prev = "present" /\ detections.last = "absent"
    /\ controller.smoothed.openness > 0
    /\ controller.smoothed.position # Point2(0, 0)
    /\ controller.prevHandPosition = None

-----------------------------------------------------------------------------
\* C5: once three consecutive point-gesture frames have found nothing under
\* the pointer while an object was selected, and no later frame has hit an
\* object, the highlight is cleared and activeSelection is null when more
\* than the no-target delay (600 ms) has passed since the third frame.
C5_ClearedAfterNoTargetDelay ==
    (pointing.misses = 3 /\ pointing.elapsed > highlightEmptyClearDelay)
    => (app.activeSelection = Null /\ starfield.highlighted = Null)

\* C6: at most one highlight-clear timeout is pending, it is the one
\* clearHighlightTimer names, and no timeout that was cancelled ever ran.
C6_OnePendingTimer ==
    /\ Cardinality(timers.pending) <= 1
    /\ \A t \in timers.pending : t.id = app.clearHighlightTimer
    /\ timers.fired \cap timers.cancelled = {}

\* the first timeout was superseded by the second, which then ran
C6_Witness ==
    /\ 1 \in timers.cancelled
    /\ 2 \in timers.fired
    /\ timers.pending = {}

-----------------------------------------------------------------------------
\* C11: when the detector fails to load, initialize() emits one "error" event
\* carrying the failure it rethrows and leaves ready false; as long as no
\* later initialize() has succeeded the controller is not running whatever
\* start() calls are made, no callback is scheduled, the detector is never
\* called and no "update" event is emitted.
C11_FailedInitializeBlocksLoop ==
    /\ lastStep = "initializeFailed" =>
           /\ history.initError # None
           /\ emitted = <<Event("error", history.initError[1])>>
    /\ history.initError # None =>
           /\ ~controller.ready
           /\ ~controller.running
           /\ rafQueue = <<>>
           /\ detections.count = 0
           /\ \A i \in 1..Len(emitted) : emitted[i].event # "update"

\* start() was called after a failed initialize()
C11_Witness ==
    /\ history.initError # None
    /\ lastStep = "start"
    /\ ~controller.running

-----------------------------------------------------------------------------
\* C12 is about a frame processed while the model is missing.  No run gets
\* there: start() schedules callbacks only once ready is true, and ready is
\* set after the model, which is never unset again.
C12_ModelPresentWhenScheduled ==
    /\ lastStep # "noModel"
    /\ (rafQueue # <<>> \/ controller.running \/ controller.ready) => controller.model # Null

-----------------------------------------------------------------------------
\* C13: after stop() on a running controller, and until start() is called
\* again, at most the one frame already scheduled is still processed: the
\* detector is called, and "update" emitted, at most once more.
C13_AtMostOneFrameAfterStop == history.afterStop <= 1

-----------------------------------------------------------------------------
\* the step is a processFrame callback taking the branch for a frame already
\* seen: the callback left the queue
SkippedFrame ==
    /\ rafQueue # <<>> /\ Head(rafQueue) = "processFrame"
    /\ rafQueue' # rafQueue
    /\ lastStep' = "sameFrame"

\* C14 as stated: an iteration that finds currentTime equal to lastVideoTime
\* calls the detector zero times, emits nothing and reschedules the loop, and
\* the detector is never called (and "update" never emitted) for the
\* timestamp of the call before.
C14_OneUpdatePerTimestamp ==
    [][/\ SkippedFrame =>
            /\ detections' = detections
            /\ emitted' = <<>>
            /\ rafQueue' = Append(Tail(rafQueue), "loop")
       /\ detections'.count # detections.count /\ history.lastStamp # -1 =>
            video.currentTime # history.lastStamp]_vars

\* C14, amended: as above, for the detector calls between one start() that
\* takes effect and the next.
C14_OneUpdatePerTimestampPerRun ==
    [][/\ SkippedFrame =>
            /\ detections' = detections
            /\ emitted' = <<>>
            /\ rafQueue' = Append(Tail(rafQueue), "loop")
       /\ (/\ detections'.count # detections.count
           /\ history.lastStamp # -1
           /\ ~history.restarted) =>
            video.currentTime # history.lastStamp]_vars

\* an iteration skipped a frame whose timestamp the detector had already run on
C14_Witness ==
    /\ lastStep = "sameFrame"
    /\ detections.count >= 1
    /\ ~history.restarted
    /\ history.lastStamp = video.currentTime

-----------------------------------------------------------------------------
\* C15: the finger states of a hand whose landmark coordinates are all
\* multiplied by the same positive factor equal those of the hand itself.
C15_ScaleInvariantFingerStates ==
    (analysis.done /\ scaling.fingerStates # None) =>
        scaling.fingerStates[1] = analysis.fingerStates

-----------------------------------------------------------------------------
\* C16: cameraState.phi is within [epsilon, PI - epsilon] in every state,
\* whatever movements the update events carry and however render ticks fall
\* between them.
C16_PhiWithinPoles ==
    /\ app.cameraState.phi >= epsilon
    /\ app.cameraState.phi <= PI - epsilon

\* a movement that would carry phi past a pole was clamped, after a render tick
C16_Witness ==
    /\ cameraLog.step = "update"
    /\ cameraLog.renders >= 1
    /\ app.cameraState.phi \in {epsilon, PI - epsilon}
    /\ Abs(app.cameraState.phi - cameraLog.before.phi)
           < RoundDiv(3 * rotateSensitivity, PosUnit)

-----------------------------------------------------------------------------
\* C17: mapOpennessToRadius returns minRadius at or below minOpenness,
\* maxRadius at or above maxOpenness and the linear interpolation (to the
\* nearest unit) in between: the midpoint openness maps to the midpoint radius
\* and every result is within [minRadius, maxRadius].
C17_ZoomMapping ==
    zoomMap.radius # None =>
        LET o == zoomMap.openness
            r == zoomMap.radius[1]
        IN /\ o <= minOpenness => r = minRadius
           /\ o >= maxOpenness => r = maxRadius
           /\ r >= minRadius /\ r <= maxRadius
           /\ (o >= minOpenness /\ o <= maxOpenness) =>
                  2 * Abs((r - minRadius) * (maxOpenness - minOpenness)
                          - (o - minOpenness) * (maxRadius - minRadius))
                      <= maxOpenness - minOpenness
           /\ 2 * o = minOpenness + maxOpenness => 2 * r = minRadius + maxRadius

\* the midpoint openness was mapped
C17_Witness ==
    /\ zoomMap.radius # None
    /\ 2 * zoomMap.openness = minOpenness + maxOpenness

-----------------------------------------------------------------------------
SmoothedOf(c) == <<c.smoothed.openness, c.smoothed.position.x, c.smoothed.position.y>>

\* after lies between before and v
Between(before, after, v) ==
    (before <= after /\ after <= v) \/ (v <= after /\ after <= before)

\* the step is a detector call that finds a hand with the raw values of the
\* hand the call before found
SameHandAgain ==
    /\ detections'.count = detections.count + 1
    /\ history.raw # None
    /\ history'.raw = history.raw

-----------------------------------------------------------------------------
\* C19: while the openness of successive update events goes down from
\* maxOpenness to minOpenness, starting with targetRadius at maxRadius,
\* targetRadius never goes up from one update to the next, never drops below
\* the radius the current openness maps to, and keeps coming down while it is
\* more than two tenths above that radius, which ends at minRadius.
C19_TargetRadiusFollowsDown ==
    cameraLog.step = "update" =>
        LET mapped == mapOpennessToRadius(cameraLog.openness)
            target == app.cameraState.targetRadius
        IN /\ target <= cameraLog.before.targetRadius
           /\ target >= mapped
           /\ cameraLog.before.targetRadius > mapped + 2 =>
                  target < cameraLog.before.targetRadius

\* the openness has come down to minOpenness and targetRadius from maxRadius
\* to within two tenths of minRadius
C19_Witness ==
    /\ cameraLog.step = "update"
    /\ cameraLog.openness = minOpenness
    /\ app.cameraState.targetRadius <= minRadius + 2

-----------------------------------------------------------------------------
\* C20: an update event may change targetRadius, theta and phi but leaves
\* cameraState.radius as it was; a render tick moves radius one zoom step
\* toward targetRadius and changes nothing else of cameraState.
C20_RadiusMovesOnlyOnRender ==
    /\ cameraLog.step = "update" =>
           app.cameraState.radius = cameraLog.before.radius
    /\ cameraLog.step = "render" =>
           app.cameraState =
               [cameraLog.before EXCEPT
                   !.radius = MathUtilsLerp(@, cameraLog.before.targetRadius, zoomLerpFactor)]

-----------------------------------------------------------------------------
\* C21: once the hand has gone missing while an object was highlighted, and
\* every update event since reports no hand, the highlight is cleared and
\* activeSelection is null when more than the no-hand delay (800 ms) has
\* passed since the first hand-absent event.
C21_ClearedAfterNoHandDelay ==
    selectionLog.handGone > noGestureClearDelay =>
        (app.activeSelection = Null /\ starfield.highlighted = Null)

\* an update event whose point gesture found nothing under the pointer: the
\* only step that arms a timeout of highlightEmptyClearDelay
EmptyRaycastStep ==
    /\ timers'.nextId # timers.nextId
    /\ \E t \in timers'.pending : t.remaining = highlightEmptyClearDelay

\* C22: a point-gesture frame whose raycast is empty leaves the highlight and
\* activeSelection as they are and only replaces the pending clear timeout;
\* and from such a frame on a selected object until the no-target delay has
\* passed, up to and including a later point frame that hits the same
\* object, the highlight is not cleared and Starfield.highlight is not
\* called.
C22_EmptyRaycastKeepsSelection ==
    /\ [](selectionLog.missOn # Null =>
            /\ ~selectionLog.touched
            /\ starfield.highlighted = selectionLog.missOn
            /\ app.activeSelection = selectionLog.missOn)
    /\ [][EmptyRaycastStep =>
            /\ starfield' = starfield
            /\ app'.activeSelection = app.activeSelection
            /\ \A t \in timers'.pending :
                   t.id = app'.clearHighlightTimer /\ t.remaining = highlightEmptyClearDelay
            /\ timers'.fired = timers.fired]_vars

\* a point frame has hit the object again some time after an empty raycast
C22_Witness ==
    selectionLog.rehit /\ selectionLog.missAge > 0

-----------------------------------------------------------------------------
\* the last call took the highlight away from the object that had it:
\* clearHighlight(), highlight(null) or highlight of a different object
Unhighlighted ==
    /\ lastCall.op # "none"
    /\ lastCall.before.highlighted # Null
    /\ (lastCall.op = "clearHighlight" \/ lastCall.object # lastCall.before.highlighted)

\* C23: after highlight(obj), applied one or more times, is followed by
\* clearHighlight() or by highlight of a different object, obj's scale,
\* emissive colour and emissive intensity are the base values saved at
\* construction and obj no longer carries the isHighlighted marker.
C23_HighlightClearRoundTrip ==
    Unhighlighted =>
        LET obj == lastCall.before.highlighted IN
        /\ starfield.scale[obj] = userData[obj].baseScale
        /\ starfield.emissive[obj] = userData[obj].baseEmissive
        /\ starfield.emissiveIntensity[obj] = userData[obj].baseEmissiveIntensity
        /\ obj \notin starfield.isHighlighted

\* star1 was highlighted twice in a row and then star2 was highlighted
C23_Witness ==
    /\ Unhighlighted
    /\ lastCall.object = "star2"
    /\ lastCall.before.highlighted = "star1"
    /\ lastCall.before.scale["star1"] = ScaleAfter(ScaleUnit, 2)
    /\ starfield.scale["star1"] = ScaleUnit

-----------------------------------------------------------------------------
\* C24: on an initialized controller, whatever start() and stop() calls and
\* frame callbacks have run, at most one loop callback is pending.
C24_SingleLoopChain ==
    controller.ready => Len(rafQueue) <= 1

-----------------------------------------------------------------------------
\* C25: whenever no handler is running, activeSelection and
\* Starfield.highlighted are the same object, or both are null.
C25_SelectionIsHighlighted ==
    app.activeSelection = starfield.highlighted

\* an object is selected again after a timeout has cleared an earlier selection
C25_Witness ==
    /\ timers.fired # {}
    /\ app.activeSelection = "star2"
    /\ starfield.highlighted = "star2"

-----------------------------------------------------------------------------
\* C26: the delay armed by a hand-absent event is shorter than the delay
\* armed by a point frame with nothing under the pointer, which is shorter
\* than the delay armed by a point frame with an object under the pointer.
C26_DelaysOrdered ==
    LET armed == selectionLog.delays IN
    /\ (armed.noHand > 0 /\ armed.noTarget > 0) => armed.noHand < armed.noTarget
    /\ (armed.noTarget > 0 /\ armed.selected > 0) => armed.noTarget < armed.selected

====
